---- MODULE Spec2Model ----
(***************************************************************************)
(* A model of create-anki-deck.py: one run of the script, from the         *)
(* command line to the exit status.  Each action is one step of main or    *)
(* of create_anki_deck; the files the run reads and the outcome of the     *)
(* genanki calls are inputs drawn when the code consults them.             *)
(***************************************************************************)
EXTENDS Integers, Sequences, FiniteSets, TLC

VARIABLES
    pc,            \* position of the run in the script
    argv,          \* the command line as given
    args,          \* the namespace parse_args returned
    input_file,    \* the file open(args.input_file) found
    css_path,      \* what os.path.exists / open found at args.css_file
    word_pairs,    \* json.load(f)
    css,           \* main's local css (None is NoCss)
    model,         \* genanki.Model built by create_anki_deck
    deck,          \* genanki.Deck built by create_anki_deck
    i,             \* index of the pair the for loop is at
    skipped,       \* indices whose note raised inside the try (lines 90-92)
    note_id,       \* the id drawn for the pair the loop handled last
    draws,         \* number of random.randrange calls made
    writes,        \* number of package.write_to_file calls made
    archive,       \* the notes of the written package
    exc,           \* the exception that left main's try block
    out,           \* messages emitted on stdout / stderr
    status         \* the exit status of the process

vars == <<pc, argv, args, input_file, css_path, word_pairs, css, model, deck,
          i, skipped, note_id, draws, writes, archive, exc, out, status>>

-----------------------------------------------------------------------------
(* Bounds and program constants *)

MaxPairs == 3

\* random.randrange(1 << 30, 1 << 31): the smallest and the largest value
IdLo == 1073741824
IdMax == 2147483647

DEFAULT_CSS == ".card{} .front{} .back{}"
DEFAULT_DECK_NAME == "Hungarian Words"
MODEL_NAME == "Hungarian Words"

NoCss == [given |-> FALSE, text |-> ""]
CssOf(t) == [given |-> TRUE, text |-> t]

NoStatus == -1
NoExc == "none"

-----------------------------------------------------------------------------
(* JSON values as json.load returns them *)

Str(s) == [t |-> "string", s |-> s, m |-> {}]
Null == [t |-> "null", s |-> "", m |-> {}]
Num == [t |-> "number", s |-> "7", m |-> {}]
Obj(m) == [t |-> "object", s |-> "", m |-> m]

Entries ==
    { Obj({<<"front", Str("alma")>>, <<"back", Str("apple")>>}),
      Obj({<<"front", Str("kutya")>>, <<"back", Str("dog")>>}),
      Obj({<<"front", Null>>, <<"back", Str("apple")>>}),
      Obj({<<"front", Str("alma")>>}),
      Obj({<<"back", Str("dog")>>}),
      Num }

RECURSIVE SeqsUpTo(_, _)
SeqsUpTo(S, n) ==
    IF n = 0 THEN {<<>>}
    ELSE LET shorter == SeqsUpTo(S, n - 1)
         IN shorter \cup {Append(s, e) : s \in {q \in shorter : Len(q) = n - 1}, e \in S}

\* what open(args.input_file) + json.load can find
MissingFile == [exists |-> FALSE, json |-> FALSE, items |-> <<>>]
BadJsonFile == [exists |-> TRUE, json |-> FALSE, items |-> <<>>]
ArrayFile(items) == [exists |-> TRUE, json |-> TRUE, items |-> items]
Unopened == [exists |-> FALSE, json |-> FALSE, items |-> <<Null>>]

InputFiles == {MissingFile, BadJsonFile} \cup {ArrayFile(s) : s \in SeqsUpTo(Entries, MaxPairs)}

\* what the --css-file path can be
CssUnchecked == [exists |-> FALSE, readable |-> FALSE, text |-> "?"]
CssMissing == [exists |-> FALSE, readable |-> FALSE, text |-> ""]
CssUnreadable == [exists |-> TRUE, readable |-> FALSE, text |-> ""]
CssFile(t) == [exists |-> TRUE, readable |-> TRUE, text |-> t]
CssTexts == {"", ".card{color:red}"}
CssPaths == {CssMissing, CssUnreadable} \cup {CssFile(t) : t \in CssTexts}

-----------------------------------------------------------------------------
(* Command lines *)

Positionals == {<<>>, <<"words.json">>, <<"">>, <<"words.json", "out.apkg">>,
                <<"", "out.apkg">>}

ArgvSet == [pos : Positionals, quiet : BOOLEAN, help : BOOLEAN,
            css_file : {"", "style.css"}, deck_name : {"", "Szavak"}]

NoArgs == [parsed |-> FALSE, input_file |-> "", output_file |-> "",
           deck_name |-> "", css_file |-> "", quiet |-> FALSE]

\* argparse: -h prints the help and exits 0; a missing required positional
\* prints the usage to stderr and exits 2 (parser.error).
ParseOutcome(a) ==
    IF a.help THEN "help"
    ELSE IF Len(a.pos) < 2 THEN "error"
    ELSE "ok"

Namespace(a) ==
    [parsed |-> TRUE,
     input_file |-> a.pos[1],
     output_file |-> a.pos[2],
     deck_name |-> IF a.deck_name = "" THEN DEFAULT_DECK_NAME ELSE a.deck_name,
     css_file |-> a.css_file,
     quiet |-> a.quiet]

-----------------------------------------------------------------------------
(* Messages *)

Msg(stream, kind, deck_name, count, file, text) ==
    [stream |-> stream, kind |-> kind, deck |-> deck_name, count |-> count,
     file |-> file, text |-> text]

UsageError == Msg("stderr", "usage", "", 0, "", "the following arguments are required")
HelpText == Msg("stdout", "help", "", 0, "", "usage")
Traceback(e) == Msg("stderr", "traceback", "", 0, "", e)

\* lines 131-132
SummaryOutput(quiet, deck_name, pairs, output_file) ==
    IF ~quiet
    THEN <<Msg("stdout", "created", deck_name, Len(pairs), output_file, "")>>
    ELSE <<>>

ErrorOutput_Loud(quiet, e) == <<Msg("stdout", "error", "", 0, "", e)>>

\* lines 136-137
ErrorOutput(quiet, e) ==
    IF ~quiet THEN <<Msg("stdout", "error", "", 0, "", e)>> ELSE <<>>

-----------------------------------------------------------------------------
(* Helpers of create_anki_deck *)

RandRange_From0 == {0, IdLo - 1}

\* random.randrange(1 << 30, 1 << 31): any v with 2^30 <= v < 2^31; the
\* model draws from the two ends of the range.
RandRange == {IdLo, IdMax}

\* css = css or DEFAULT_CSS: None and the empty string are both falsy
CssOrDefault(c) == IF c.given /\ c.text # "" THEN c.text ELSE DEFAULT_CSS

HasKey(v, k) == \E p \in v.m : p[1] = k
Member(v, k) == (CHOOSE p \in v.m : p[1] = k)[2]

\* pair[key]: NoExc when the lookup returns, else the exception it raises
SubscriptError(v, k) ==
    IF v.t # "object" THEN "TypeError"
    ELSE IF ~HasKey(v, k) THEN "KeyError"
    ELSE NoExc

\* lines 77-78: front is looked up before back
LookupError(pair) ==
    IF SubscriptError(pair, "front") # NoExc THEN SubscriptError(pair, "front")
    ELSE SubscriptError(pair, "back")

\* genanki takes a note of two strings; what it does with a field that is
\* not a string is the library's: it may raise or take the note.
NoteMayRaise(pair) ==
    IF Member(pair, "front").t = "string" /\ Member(pair, "back").t = "string"
    THEN {FALSE}
    ELSE BOOLEAN

\* lines 84-88
Note(pair, id) ==
    [front |-> Member(pair, "front"), back |-> Member(pair, "back"),
     guid |-> ToString(id)]

AddNote_Forgotten(d, note) == d

\* line 89: deck.add_note(note)
AddNote(d, note) == [d EXCEPT !.notes = Append(@, note)]

NextPair_Break(idx, raised, n) == IF raised THEN n + 1 ELSE idx + 1

\* lines 76, 90-92: pass, and the for loop takes the next pair
NextPair(idx, raised, n) == idx + 1

NoModel == [id |-> 0, name |-> "", css |-> ""]
NoDeck == [id |-> 0, name |-> "", notes |-> <<>>]
NoArchive == [written |-> FALSE, notes |-> <<>>, css |-> ""]

-----------------------------------------------------------------------------
(* The run *)

Init ==
    /\ pc = "parse_args"
    /\ argv \in ArgvSet
    /\ args = NoArgs
    /\ input_file = Unopened
    /\ css_path = CssUnchecked
    /\ word_pairs = <<>>
    /\ css = NoCss
    /\ model = NoModel
    /\ deck = NoDeck
    /\ i = 0
    /\ skipped = {}
    /\ note_id = 0
    /\ draws = 0
    /\ writes = 0
    /\ archive = NoArchive
    /\ exc = NoExc
    /\ out = <<>>
    /\ status = NoStatus

\* line 113, lines 100-109
ParseArgs ==
    /\ pc = "parse_args"
    /\ CASE ParseOutcome(argv) = "help" ->
              /\ out' = Append(out, HelpText)
              /\ status' = 0
              /\ pc' = "exit"
              /\ args' = args
         [] ParseOutcome(argv) = "error" ->
              /\ out' = Append(out, UsageError)
              /\ status' = 2
              /\ pc' = "exit"
              /\ args' = args
         [] OTHER ->
              /\ args' = Namespace(argv)
              /\ pc' = "main"
              /\ UNCHANGED <<out, status>>
    /\ UNCHANGED <<argv, input_file, css_path, word_pairs, css, model, deck, i,
                   skipped, note_id, draws, writes, archive, exc>>

\* line 116
MainIf ==
    /\ pc = "main"
    /\ pc' = IF args.input_file # "" THEN "open_input" ELSE "no_input"
    /\ UNCHANGED <<argv, args, input_file, css_path, word_pairs, css, model, deck,
                   i, skipped, note_id, draws, writes, archive, exc, out, status>>

\* lines 139-142: parser is a local of parse_args, so print_help is never
\* reached: the NameError leaves main uncaught, the interpreter prints the
\* traceback and exits with status 1.
NoInput ==
    /\ pc = "no_input"
    /\ exc' = "NameError"
    /\ out' = Append(out, Traceback("NameError"))
    /\ status' = 1
    /\ pc' = "exit"
    /\ UNCHANGED <<argv, args, input_file, css_path, word_pairs, css, model, deck,
                   i, skipped, note_id, draws, writes, archive>>

LoadResult_MissingIsEmpty(f) ==
    IF ~f.exists THEN [raised |-> NoExc, value |-> <<>>]
    ELSE IF ~f.json THEN [raised |-> "JSONDecodeError", value |-> <<>>]
    ELSE [raised |-> NoExc, value |-> f.items]

\* lines 119-120: what open and json.load do with the file found
LoadResult(f) ==
    IF ~f.exists THEN [raised |-> "FileNotFoundError", value |-> <<>>]
    ELSE IF ~f.json THEN [raised |-> "JSONDecodeError", value |-> <<>>]
    ELSE [raised |-> NoExc, value |-> f.items]

\* lines 118-120
OpenInput ==
    /\ pc = "open_input"
    /\ \E f \in InputFiles :
         /\ input_file' = f
         /\ IF LoadResult(f).raised # NoExc
            THEN /\ exc' = LoadResult(f).raised
                 /\ pc' = "except"
                 /\ word_pairs' = word_pairs
            ELSE /\ word_pairs' = LoadResult(f).value
                 /\ pc' = "read_css"
                 /\ exc' = exc
    /\ UNCHANGED <<argv, args, css_path, css, model, deck, i, skipped, note_id, draws,
                   writes, archive, out, status>>

\* lines 122-126
ReadCss ==
    /\ pc = "read_css"
    /\ IF args.css_file = ""
       THEN /\ css' = NoCss
            /\ pc' = "create"
            /\ UNCHANGED <<css_path, exc>>
       ELSE \E p \in CssPaths :
              /\ css_path' = p
              /\ IF ~p.exists
                 THEN /\ css' = NoCss
                      /\ pc' = "create"
                      /\ exc' = exc
                 ELSE IF ~p.readable
                 THEN /\ exc' = "OSError"
                      /\ pc' = "except"
                      /\ css' = css
                 ELSE /\ css' = CssOf(p.text)
                      /\ pc' = "create"
                      /\ exc' = exc
    /\ UNCHANGED <<argv, args, input_file, word_pairs, model, deck, i, skipped,
                   note_id, draws, writes, archive, out, status>>

\* lines 52-73: the ids, the stylesheet, the model and the empty deck
CreateModelAndDeck ==
    /\ pc = "create"
    /\ \E model_id \in RandRange, deck_id \in RandRange :
         /\ model' = [id |-> model_id, name |-> MODEL_NAME, css |-> CssOrDefault(css)]
         /\ deck' = [id |-> deck_id, name |-> args.deck_name, notes |-> <<>>]
    /\ draws' = draws + 2
    /\ i' = 1
    /\ pc' = "loop"
    /\ UNCHANGED <<argv, args, input_file, css_path, word_pairs, css, skipped,
                   note_id, writes, archive, exc, out, status>>

\* lines 76-92: one iteration of the for loop
LoopPair ==
    /\ pc = "loop"
    /\ i <= Len(word_pairs)
    /\ LET pair == word_pairs[i] IN
         IF LookupError(pair) # NoExc
         THEN /\ exc' = LookupError(pair)
              /\ pc' = "except"
              /\ UNCHANGED <<deck, i, skipped, note_id, draws>>
         ELSE \E id \in RandRange, raises \in NoteMayRaise(pair) :
                /\ note_id' = id
                /\ draws' = draws + 1
                /\ IF raises
                   THEN /\ skipped' = skipped \cup {i}
                        /\ deck' = deck
                   ELSE /\ deck' = AddNote(deck, Note(pair, id))
                        /\ skipped' = skipped
                /\ i' = NextPair(i, raises, Len(word_pairs))
                /\ UNCHANGED <<pc, exc>>
    /\ UNCHANGED <<argv, args, input_file, css_path, word_pairs, css, model,
                   writes, archive, out, status>>

WritePackage_InLoop ==
    /\ pc = "loop"
    /\ writes' = writes + 1
    /\ \E fails \in BOOLEAN :
         IF fails
         THEN /\ exc' = "PackageError"
              /\ pc' = "except"
              /\ archive' = archive
         ELSE /\ archive' = [written |-> TRUE, notes |-> deck.notes, css |-> model.css]
              /\ pc' = IF i > Len(word_pairs) THEN "summary" ELSE "loop"
              /\ exc' = exc
    /\ UNCHANGED <<argv, args, input_file, css_path, word_pairs, css, model, deck,
                   i, skipped, note_id, draws, out, status>>

\* lines 94-98: the loop is over, the package is written
WritePackage ==
    /\ pc = "loop"
    /\ i > Len(word_pairs)
    /\ writes' = writes + 1
    /\ \E fails \in BOOLEAN :
         IF fails
         THEN /\ exc' = "PackageError"
              /\ pc' = "except"
              /\ archive' = archive
         ELSE /\ archive' = [written |-> TRUE, notes |-> deck.notes, css |-> model.css]
              /\ pc' = "summary"
              /\ exc' = exc
    /\ UNCHANGED <<argv, args, input_file, css_path, word_pairs, css, model, deck,
                   i, skipped, note_id, draws, out, status>>

Summary_CountsNotes ==
    /\ pc = "summary"
    /\ out' = out \o SummaryOutput(args.quiet, args.deck_name, deck.notes, args.output_file)
    /\ status' = 0
    /\ pc' = "exit"
    /\ UNCHANGED <<argv, args, input_file, css_path, word_pairs, css, model, deck,
                   i, skipped, note_id, draws, writes, archive, exc>>

\* lines 131-134
Summary ==
    /\ pc = "summary"
    /\ out' = out \o SummaryOutput(args.quiet, args.deck_name, word_pairs, args.output_file)
    /\ status' = 0
    /\ pc' = "exit"
    /\ UNCHANGED <<argv, args, input_file, css_path, word_pairs, css, model, deck,
                   i, skipped, note_id, draws, writes, archive, exc>>

\* lines 135-138
Except ==
    /\ pc = "except"
    /\ out' = out \o ErrorOutput(args.quiet, exc)
    /\ status' = 1
    /\ pc' = "exit"
    /\ UNCHANGED <<argv, args, input_file, css_path, word_pairs, css, model, deck,
                   i, skipped, note_id, draws, writes, archive, exc>>

Next ==
    \/ ParseArgs
    \/ MainIf
    \/ NoInput
    \/ OpenInput
    \/ ReadCss
    \/ CreateModelAndDeck
    \/ LoopPair
    \/ WritePackage
    \/ Summary
    \/ Except

Spec == Init /\ [][Next]_vars

-----------------------------------------------------------------------------
(* Vocabulary of the properties *)

Exited == pc = "exit"

\* create_anki_deck was entered (lines 52-73 ran)
Called == i >= 1

\* a {front, back} object whose two fields are strings
WellFormed(e) ==
    /\ e.t = "object"
    /\ HasKey(e, "front") /\ HasKey(e, "back")
    /\ Member(e, "front").t = "string" /\ Member(e, "back").t = "string"

WellFormedArray(f) ==
    /\ f.exists /\ f.json
    /\ \A k \in 1..Len(f.items) : WellFormed(f.items[k])

\* every entry is an object holding both keys
KeyedArray(f) ==
    /\ f.exists /\ f.json
    /\ \A k \in 1..Len(f.items) : LookupError(f.items[k]) = NoExc

Fields(notes) == [k \in 1..Len(notes) |-> <<notes[k].front, notes[k].back>>]

\* the fields of the first n pairs whose note did not raise, in input order
RECURSIVE Kept(_)
Kept(n) ==
    IF n = 0 THEN <<>>
    ELSE IF n \in skipped \/ LookupError(word_pairs[n]) # NoExc THEN Kept(n - 1)
    ELSE Append(Kept(n - 1),
                <<Member(word_pairs[n], "front"), Member(word_pairs[n], "back")>>)

Printed(kind) == \E k \in 1..Len(out) : out[k].kind = kind

LookupErrors == {"KeyError", "TypeError"}
ReadErrors == {"FileNotFoundError", "JSONDecodeError", "OSError"}

-----------------------------------------------------------------------------
(* C1 *)

-----------------------------------------------------------------------------
(* C2 *)

\* C2: when the input file does not exist, the run ends with a non-zero exit
\* status, create_anki_deck is never entered and the output file is never
\* written.
C2_MissingInputNoOutput ==
    (pc \notin {"parse_args", "main", "no_input", "open_input"}
       /\ args.input_file # "" /\ ~input_file.exists) =>
        /\ exc = "FileNotFoundError"
        /\ ~Called
        /\ writes = 0
        /\ ~archive.written
        /\ Exited => status = 1

C2_Witness ==
    /\ Exited
    /\ args.parsed /\ args.input_file # ""
    /\ input_file = MissingFile
    /\ status = 1
    /\ writes = 0

-----------------------------------------------------------------------------
(* C3 *)

\* C3 as stated: every run ends with exit status 0 or 1, status 0 exactly when
\* the deck was built and written, status 1 when a required positional
\* argument is missing or the input path is empty, and no exception leaves
\* main uncaught.
C3_AsStated ==
    Exited =>
        /\ status \in {0, 1}
        /\ (status = 0) <=> archive.written
        /\ (Len(argv.pos) < 2 \/ argv.pos[1] = "") => status = 1
        /\ exc # "NameError"

-----------------------------------------------------------------------------
(* C4 *)

\* C4 as stated: whenever --quiet is given, no message is emitted on stdout
\* or stderr in any run.
C4_AsStated == argv.quiet => out = <<>>

\* C4 amended: whenever --quiet is given and argument parsing returned a
\* non-empty input path, no message is emitted, whether the run succeeds or
\* fails inside main's try block.
C4_QuietInsideTry ==
    (argv.quiet /\ args.parsed /\ args.input_file # "") => out = <<>>

C4_Witness ==
    /\ Exited
    /\ argv.quiet
    /\ status = 1
    /\ exc \in ReadErrors \cup LookupErrors \cup {"PackageError"}
    /\ out = <<>>

-----------------------------------------------------------------------------
(* C5 *)

\* C5 as stated: whenever --css-file names an existing file, the stylesheet
\* of the note model is the text of that file and never DEFAULT_CSS, for
\* every file content including the empty one; DEFAULT_CSS is used only when
\* no existing CSS file was supplied.
C5_AsStated ==
    Called =>
        /\ (css_path.exists /\ css_path.readable) =>
              /\ model.css = css_path.text
              /\ model.css # DEFAULT_CSS
        /\ (model.css = DEFAULT_CSS) => ~css_path.exists

-----------------------------------------------------------------------------
(* C6 *)

-----------------------------------------------------------------------------
(* C7 *)

\* C7 as stated: no entry of the input array makes the run fail: a run that
\* loaded the array and whose package write does not raise processes every
\* entry, writes the archive and returns 0.
C7_AsStated ==
    /\ exc \notin LookupErrors
    /\ (Exited /\ Called /\ exc # "PackageError") =>
          /\ status = 0
          /\ archive.written

-----------------------------------------------------------------------------
(* C8 *)

\* C8: on every successful non-quiet run the summary line is the only message
\* and its card count is the number of entries of the input array; the
\* archive holds that number less the dropped pairs, so the count is strictly
\* greater than the number of notes whenever a pair was dropped.
C8_CountIsInputLength ==
    (Exited /\ status = 0 /\ args.parsed /\ ~args.quiet) =>
        /\ word_pairs = input_file.items
        /\ Len(out) = 1
        /\ out[1].kind = "created"
        /\ out[1].count = Len(word_pairs)
        /\ Len(archive.notes) = Len(word_pairs) - Cardinality(skipped)
        /\ skipped # {} => out[1].count > Len(archive.notes)

C8_Witness ==
    /\ Exited /\ status = 0 /\ args.parsed /\ ~args.quiet
    /\ skipped # {}
    /\ Len(out) = 1
    /\ out[1].count = Len(word_pairs)
    /\ out[1].count > Len(archive.notes)

-----------------------------------------------------------------------------
(* C9 *)

ThirtyBit(v) == 0 <= v /\ v < IdLo
InRandRange(v) == IdLo <= v /\ v <= IdMax

-----------------------------------------------------------------------------
(* C10 *)

====
